---- MODULE Spec2Model ----
(***************************************************************************)
(* Model of the pa-f.net tool chain: the link-graph analyzer               *)
(* (palimpsest/analysis.py, legacy sitemap.py), the editor API             *)
(* (web-editor/backend/main.py) with the static site generator it calls,   *)
(* and the sitemap builder (palimpsest/parser.py).                         *)
(*                                                                         *)
(* A Python str is modelled as a sequence of one-character strings, so     *)
(* that startswith, lstrip, split, replace and os.path.normpath are        *)
(* computed character by character as the library computes them.           *)
(* A Python dict is modelled as a sequence of entries in insertion order   *)
(* (the order .items() iterates in) with pairwise distinct keys.           *)
(***************************************************************************)
EXTENDS Integers, Sequences, FiniteSets, TLC

(***************************************************************************)
(* Python str methods                                                      *)
(***************************************************************************)

\* str.startswith(p)
StartsWith(s, p) ==
    /\ Len(s) >= Len(p)
    /\ SubSeq(s, 1, Len(p)) = p

\* `c in s` for a one-character c
HasChar(s, c) == \E i \in 1..Len(s) : s[i] = c

\* the characters str.strip() removes (those the model's strings can hold)
Whitespace == {" ", "\t", "\n", "\r"}

\* str.lstrip(chars): drop EVERY leading character that is in chars
RECURSIVE LStrip(_, _)
LStrip(s, chars) ==
    IF s # <<>> /\ Head(s) \in chars THEN LStrip(Tail(s), chars) ELSE s

\* a plausible slip: only one leading '/' is removed
LStripSlashOnce(s) == IF s # <<>> /\ Head(s) = "/" THEN Tail(s) ELSE s

\* link.lstrip('/')
LStripSlash(s) == LStrip(s, {"/"})

RECURSIVE RStrip(_, _)
RStrip(s, chars) ==
    IF s # <<>> /\ s[Len(s)] \in chars
    THEN RStrip(SubSeq(s, 1, Len(s) - 1), chars)
    ELSE s

\* str.strip()
Strip(s) == RStrip(LStrip(s, Whitespace), Whitespace)

\* str.split(c) for a one-character separator: always at least one segment
RECURSIVE SplitFrom(_, _, _, _)
SplitFrom(s, c, i, cur) ==
    IF i > Len(s) THEN <<cur>>
    ELSE IF s[i] = c THEN <<cur>> \o SplitFrom(s, c, i + 1, <<>>)
    ELSE SplitFrom(s, c, i + 1, Append(cur, s[i]))

Split(s, c) == SplitFrom(s, c, 1, <<>>)

\* sep.join(segs)
RECURSIVE Join(_, _)
Join(segs, sep) ==
    IF segs = <<>> THEN <<>>
    ELSE IF Len(segs) = 1 THEN segs[1]
    ELSE segs[1] \o sep \o Join(Tail(segs), sep)

\* str.replace(old, new): every non-overlapping occurrence, left to right
RECURSIVE Replace(_, _, _)
Replace(s, old, new) ==
    IF s = <<>> THEN <<>>
    ELSE IF StartsWith(s, old)
         THEN new \o Replace(SubSeq(s, Len(old) + 1, Len(s)), old, new)
         ELSE <<Head(s)>> \o Replace(Tail(s), old, new)

\* os.path.normpath (posixpath): the loop over the components
RECURSIVE NormComps(_, _, _)
NormComps(comps, new_comps, initial_slashes) ==
    IF comps = <<>> THEN new_comps
    ELSE LET comp == Head(comps)
             rest == Tail(comps)
         IN  IF comp = <<>> \/ comp = <<".">>
             THEN NormComps(rest, new_comps, initial_slashes)
             ELSE IF \/ comp # <<".", ".">>
                     \/ (initial_slashes = 0 /\ new_comps = <<>>)
                     \/ (new_comps # <<>> /\ new_comps[Len(new_comps)] = <<".", ".">>)
                  THEN NormComps(rest, Append(new_comps, comp), initial_slashes)
                  ELSE IF new_comps # <<>>
                       THEN NormComps(rest, SubSeq(new_comps, 1, Len(new_comps) - 1),
                                      initial_slashes)
                       ELSE NormComps(rest, new_comps, initial_slashes)

\* os.path.normpath (posixpath)
NormPath(path) ==
    IF path = <<>> THEN <<".">>
    ELSE LET initial_slashes ==
                 IF ~StartsWith(path, <<"/">>) THEN 0
                 ELSE IF StartsWith(path, <<"/", "/">>) /\ ~StartsWith(path, <<"/", "/", "/">>)
                      THEN 2 ELSE 1
             body == Join(NormComps(Split(path, "/"), <<>>, initial_slashes), <<"/">>)
             res == [i \in 1..initial_slashes |-> "/"] \o body
         IN  IF res = <<>> THEN <<".">> ELSE res

(***************************************************************************)
(* State                                                                   *)
(***************************************************************************)
VARIABLES
    sitemap,     \* SiteAnalyzer.sitemap: entries [key, title, links] in dict order
    op,          \* the analyzer method that returned last ("none" before any call)
    ret,         \* the value that method returned
    lookups,     \* per link that reached analysis.py:57 in that call: [k, raw, link]
    sitemap_file,\* content of SITEMAP_PATH: entries [key, data] in the order dumped
    paf_static,  \* STATIC_OUTPUT_DIR: the page paths that have a generated file
    request,     \* sitemap_data of the last POST /api/sitemap (entries [key, data])
    response,    \* status of the answer to it ("none" before any request)
    regenerated, \* whether that request got as far as generate_site()
    root_dir,    \* SiteParser.root_dir
    tree,        \* the files below root_dir: file path -> the document it holds
    walk,        \* the order in which os.walk hands the files to this parse() call
    pos,         \* index into walk of the file the loop of parse() takes next
    pstate,      \* "idle", "walking", "returned" or "raised" (exception left parse)
    parser_sitemap, \* SiteParser.sitemap: key -> record
    parsed,      \* the last parse_file call: <<>> or <<[path, doc, out]>>
    returned,    \* the sitemaps the parse() calls returned so far, oldest first
    sitemap_json,\* what save_sitemap wrote: <<>> or <<key -> persisted record>>
    content,     \* the local `content` of the legacy parse() (sitemap.py)
    legacy_sitemap, \* the local `sitemap` of the legacy parse(): key -> record
    decided      \* history: file path -> the outcomes its parsing has had so far

avars == <<sitemap, op, ret, lookups>>
evars == <<sitemap_file, paf_static, request, response, regenerated>>
lvars == <<content, legacy_sitemap>>
pvars == <<root_dir, tree, walk, pos, pstate, parser_sitemap, parsed, returned,
           sitemap_json, content, legacy_sitemap, decided>>
vars == <<sitemap, op, ret, lookups, sitemap_file, paf_static, request, response,
          regenerated, root_dir, tree, walk, pos, pstate, parser_sitemap, parsed,
          returned, sitemap_json, content, legacy_sitemap, decided>>

(***************************************************************************)
(* SiteAnalyzer.analyze_links  (legacy twin: sitemap.py list())            *)
(***************************************************************************)

\* the keys of a dict
Keys(sm) == {sm[i].key : i \in 1..Len(sm)}

\* `'.' in k.split('/')[-1]`
IsFileKey(k) ==
    LET segs == Split(k, "/") IN HasChar(segs[Len(segs)], ".")

\* a plausible slip: the last segment of a file key is not dropped
BaseDirWholeKey(k) == k

\* k2: the base a '../' link is appended to
BaseDir(k) ==
    LET segs == Split(k, "/")
    IN  IF IsFileKey(k)
        THEN Join(SubSeq(segs, 1, Len(segs) - 1), <<"/">>) \o <<"/">>
        ELSE k

\* the two `continue` filters ahead of resolution
IsSkippedLink(link) ==
    \/ StartsWith(link, <<"h", "t", "t", "p">>)
    \/ HasChar(link, "?")

\* the value of `link` when it is looked up in the sitemap
Resolve(k, raw) ==
    LET link == LStripSlash(raw)
    IN  IF StartsWith(link, <<".", ".", "/">>)
        THEN NormPath(BaseDir(k) \o link)
        ELSE link

\* a plausible slip: dead links are credited too
InSitemapAlways(link, sm) == TRUE

\* `link in self.sitemap`
InSitemap(link, sm) == link \in Keys(sm)

\* a plausible slip: the count is set instead of incremented
IncrementOverwrite(d, link) ==
    IF link \in DOMAIN d THEN [d EXCEPT ![link] = 1] ELSE d @@ (link :> 1)

\* links_to[link] = links_to.get(link, 0) + 1
Increment(d, link) ==
    IF link \in DOMAIN d THEN [d EXCEPT ![link] = @ + 1] ELSE d @@ (link :> 1)

\* the two nested loops, from entry i and link j on, with links_to so far
RECURSIVE AnalyzeFrom(_, _, _, _)
AnalyzeFrom(sm, i, j, links_to) ==
    IF i > Len(sm) THEN links_to
    ELSE IF j > Len(sm[i].links) THEN AnalyzeFrom(sm, i + 1, 1, links_to)
    ELSE LET raw == sm[i].links[j]
             link == Resolve(sm[i].key, raw)
         IN  IF IsSkippedLink(raw) THEN AnalyzeFrom(sm, i, j + 1, links_to)
             ELSE IF ~InSitemap(link, sm) THEN AnalyzeFrom(sm, i, j + 1, links_to)
             ELSE AnalyzeFrom(sm, i, j + 1, Increment(links_to, link))

analyze_links(sm) == AnalyzeFrom(sm, 1, 1, <<>>)

\* the values `link` takes at the lookup, in visiting order
RECURSIVE LookupsFrom(_, _, _)
LookupsFrom(sm, i, j) ==
    IF i > Len(sm) THEN <<>>
    ELSE IF j > Len(sm[i].links) THEN LookupsFrom(sm, i + 1, 1)
    ELSE LET raw == sm[i].links[j]
         IN  IF IsSkippedLink(raw) THEN LookupsFrom(sm, i, j + 1)
             ELSE <<[k |-> sm[i].key, raw |-> raw, link |-> Resolve(sm[i].key, raw)]>>
                  \o LookupsFrom(sm, i, j + 1)

\* links_to.get(k, 0)
GetCount(links_to, k) == IF k \in DOMAIN links_to THEN links_to[k] ELSE 0

(***************************************************************************)
(* SiteAnalyzer.generate_page_list  (legacy twin: sitemap.py list())       *)
(***************************************************************************)

\* a plausible slip: an unstable sort, equal counts come out in reverse order
RECURSIVE InsertDescUnstable(_, _, _)
InsertDescUnstable(sorted, e, links_to) ==
    IF sorted = <<>> THEN <<e>>
    ELSE IF GetCount(links_to, Head(sorted).key) > GetCount(links_to, e.key)
         THEN <<Head(sorted)>> \o InsertDescUnstable(Tail(sorted), e, links_to)
         ELSE <<e>> \o sorted

\* place e behind every entry whose count is >= its own: sorted(..., reverse=True)
\* keeps entries of equal count in their original order
RECURSIVE InsertDesc(_, _, _)
InsertDesc(sorted, e, links_to) ==
    IF sorted = <<>> THEN <<e>>
    ELSE IF GetCount(links_to, Head(sorted).key) >= GetCount(links_to, e.key)
         THEN <<Head(sorted)>> \o InsertDesc(Tail(sorted), e, links_to)
         ELSE <<e>> \o sorted

\* sorted(self.sitemap.items(), key=lambda x: links_to.get(x[0], 0), reverse=True)
RECURSIVE SortedPages(_, _, _)
SortedPages(sm, n, links_to) ==
    IF n = 0 THEN <<>>
    ELSE InsertDesc(SortedPages(sm, n - 1, links_to), sm[n], links_to)

\* the href shown for key k
PageHref(k) ==
    LET link == Replace(k, <<".", "h", "t", "m", "l">>, <<>>)
    IN  IF link = <<"i", "n", "d", "e", "x">> THEN <<>> ELSE link

\* the <li> lines, one record per line: the item k it was written for and the
\* three values interpolated into it
RECURSIVE ListLines(_, _)
ListLines(sorted_pages, links_to) ==
    IF sorted_pages = <<>> THEN <<>>
    ELSE LET e == Head(sorted_pages)
         IN  IF HasChar(e.key, "?") THEN ListLines(Tail(sorted_pages), links_to)
             ELSE <<[k |-> e.key, link |-> PageHref(e.key), title |-> e.title,
                     cnt |-> GetCount(links_to, e.key)]>>
                  \o ListLines(Tail(sorted_pages), links_to)

generate_page_list(sm) ==
    LET links_to == analyze_links(sm)
    IN  ListLines(SortedPages(sm, Len(sm), links_to), links_to)

(***************************************************************************)
(* SiteAnalyzer.generate_graphviz  (legacy twin: sitemap.py graph())       *)
(***************************************************************************)

badchars == <<"/", "-", ".", "?", "=", "+", "&", " ">>

\* str.replace for a one-character old and new
ReplaceChar(s, ch, new) == [i \in 1..Len(s) |-> IF s[i] = ch THEN new ELSE s[i]]

\* a plausible slip: the last character of badchars (the space) is not replaced
RECURSIVE CleanFromShort(_, _)
CleanFromShort(s, n) ==
    IF n >= Len(badchars) THEN s
    ELSE CleanFromShort(ReplaceChar(s, badchars[n], "_"), n + 1)

\* for ch in badchars: s = s.replace(ch, '_'), from the n-th character of badchars on
RECURSIVE CleanFrom(_, _)
CleanFrom(s, n) ==
    IF n > Len(badchars) THEN s
    ELSE CleanFrom(ReplaceChar(s, badchars[n], "_"), n + 1)

Clean(s) == CleanFrom(s, 1)

\* the value of `link` after the root special case and lstrip('/')
EdgeLink(link_raw) ==
    LET link == IF Strip(link_raw) = <<"/">>
                THEN <<"i", "n", "d", "e", "x", ".", "h", "t", "m", "l">>
                ELSE link_raw
    IN  LStripSlash(link)

\* a plausible slip: the blank test is forgotten
EdgeSkippedNoBlank(link) == StartsWith(link, <<"h", "t", "t", "p">>)

\* the two `continue` tests of the edge loop
EdgeSkipped(link) ==
    \/ Strip(link) = <<>>
    \/ StartsWith(link, <<"h", "t", "t", "p">>)

\* the edge lines of one page, from link j on
RECURSIVE EdgeLines(_, _, _)
EdgeLines(uid, links, j) ==
    IF j > Len(links) THEN <<>>
    ELSE LET link == EdgeLink(links[j])
         IN  IF EdgeSkipped(link) THEN EdgeLines(uid, links, j + 1)
             ELSE <<[kind |-> "edge", uid |-> uid, arg |-> Clean(link)]>>
                  \o EdgeLines(uid, links, j + 1)

\* the lines of the digraph body, from entry i on: a node line (arg is the
\* label) followed by the page's edge lines (arg is the target identifier)
RECURSIVE DotLines(_, _)
DotLines(sm, i) ==
    IF i > Len(sm) THEN <<>>
    ELSE LET uid == Clean(sm[i].key)
             title == Replace(sm[i].title, <<"\"">>, <<>>)
         IN  <<[kind |-> "node", uid |-> uid, arg |-> title]>>
             \o EdgeLines(uid, sm[i].links, 1)
             \o DotLines(sm, i + 1)

generate_graphviz(sm) == DotLines(sm, 1)

(***************************************************************************)
(* Inputs of the analyzer: sitemaps over small pools of keys and link lists *)
(***************************************************************************)

Html == <<".", "h", "t", "m", "l">>
Http == <<"h", "t", "t", "p">>

k_index == <<"i", "n", "d", "e", "x">> \o Html          \* index.html
k_c     == <<"c">> \o Html                              \* c.html
k_b     == <<"b">> \o Html                              \* b.html
k_ab    == <<"a", "/", "b">>                            \* a/b
k_abh   == <<"a", "/", "b">> \o Html                    \* a/b.html
k_abd   == <<"a", "/", "b", "/">>                       \* a/b/
k_ac    == <<"a", "/", "c">> \o Html                    \* a/c.html
k_a_b   == <<"a", "-", "b">> \o Html                    \* a-b.html
k_x     == <<"x">>                                      \* x
k_sx    == <<"/", "x">>                                 \* /x
k_tq    == <<"t", "?", "x">>                            \* t?x
k_httpd == Http \o <<"d">>                              \* httpd
k_node  == <<"n", "o", "d", "e", "/", "2", "5", "1", "5", "3">> \o Html
k_odd   == <<"q", "=", "1", "&", "r", "+", "s", " ", "t">>   \* q=1&r+s t

l_up_c    == <<".", ".", "/">> \o k_c                   \* ../c.html
l_upup_c  == <<".", ".", "/", ".", ".", "/">> \o k_c    \* ../../c.html
l_s_c     == <<"/">> \o k_c                             \* /c.html
l_ss_x    == <<"/", "/", "x">>                          \* //x
l_cq      == k_c \o <<"?", "p">>                        \* c.html?p
l_ext     == Http \o <<":", "/", "/", "e">>             \* http://e
l_dead    == <<"y">>                                    \* y
l_root    == <<"/">>                                    \* /
l_empty   == <<>>                                       \* the empty string
l_blank   == <<" ">>                                    \* one space
l_ss_sp   == <<"/", "/", " ">>                          \* two slashes, one space
l_s_sp    == <<"/", " ">>                               \* one slash, one space
l_s_abh   == <<"/">> \o k_abh                           \* /a/b.html
l_up_a_b  == <<".", ".", "/">> \o k_a_b                 \* ../a-b.html
l_s_ext   == <<"/">> \o l_ext                           \* /http://e

\* the largest number of pages of a sitemap
MaxPages == 3

\* a family of inputs: the keys and the link lists its sitemaps are made of
Families == {
    \* '../' links from file keys and from a directory-style key
    [keys  |-> {k_abh, k_abd, k_c, k_ac},
     lists |-> {<<l_up_c>>, <<l_upup_c, l_s_c>>}],
    \* '../' links from an extension-less key and from a key without '/'
    [keys  |-> {k_ab, k_b, k_c, k_ac},
     lists |-> {<<l_up_c>>, <<k_c, l_up_c>>}],
    \* leading slashes
    [keys  |-> {k_c, k_x, k_sx},
     lists |-> {<<l_s_c, k_c>>, <<l_ss_x, k_sx>>, <<k_x>>}],
    \* excluded links, dead links, links that are keys as written
    [keys  |-> {k_c, k_tq, k_httpd},
     lists |-> {<<k_tq, k_httpd, l_dead>>, <<l_cq, l_ext, k_c>>, <<>>}],
    \* ranking
    [keys  |-> {k_index, k_c, k_x, k_tq},
     lists |-> {<<>>, <<k_c>>, <<k_x, k_index, l_ss_x>>}],
    \* graph export
    [keys  |-> {k_node, k_a_b, k_abh, k_odd},
     lists |-> {<<l_root, l_empty, l_blank>>, <<l_ext, l_s_abh, l_s_ext>>,
                <<l_ss_sp, l_s_sp, k_odd>>}]
}

\* the title stored with a key
TitleOf(k) == IF k = k_c THEN <<"\"", "C", "\"">> ELSE <<"P">>

\* the sitemaps of at most MaxPages pages over a family: pairwise distinct keys
\* in any order, each with one of the family's link lists
SitemapsOf(f) ==
    UNION {
        {[i \in 1..n |-> [key |-> ks[i], title |-> TitleOf(ks[i]), links |-> ls[i]]] :
            ks \in {q \in [1..n -> f.keys] : \A i, j \in 1..n : i # j => q[i] # q[j]},
            ls \in [1..n -> f.lists]} :
        n \in 0..MaxPages}

Sitemaps == UNION {SitemapsOf(f) : f \in Families}

(***************************************************************************)
(* StaticSiteGenerator.generate_site                                       *)
(*                                                                         *)
(* A page's data is [isdict, f]: f maps the field names present to their   *)
(* values, isdict is FALSE for a JSON value that is not an object.  Field  *)
(* values are JSON strings, for which generate_page_html does not raise.   *)
(* The output directory is represented by the set of page paths that have  *)
(* a file in it.                                                           *)
(***************************************************************************)

\* the loop over self.sitemap.items(), from entry i on: output_path is written
RECURSIVE WritePages(_, _, _)
WritePages(sm, i, out) ==
    IF i > Len(sm) THEN out
    ELSE WritePages(sm, i + 1, out \cup {sm[i].key})

\* [ok, out]: ok FALSE when generate_site raised (`not self.sitemap`), out the
\* output directory after the call
generate_site(sm, out) ==
    IF sm = <<>> THEN [ok |-> FALSE, out |-> out]
    ELSE [ok |-> TRUE, out |-> WritePages(sm, 1, out)]

(***************************************************************************)
(* POST /api/sitemap: update_sitemap                                       *)
(***************************************************************************)

required_fields == <<"title", "md">>

\* the test of one record in the validation loop
RecordOk(data) ==
    /\ data.isdict
    /\ \A n \in 1..Len(required_fields) : required_fields[n] \in DOMAIN data.f

\* a plausible slip: only the first record is validated
ValidFirstOnly(R) == R = <<>> \/ RecordOk(R[1].data)

\* the validation loop runs through without raising
Valid(R) == \A i \in 1..Len(R) : RecordOk(R[i].data)

(***************************************************************************)
(* Inputs of the editor API                                                *)
(***************************************************************************)

d_scalar   == [isdict |-> FALSE, f |-> <<>>]
d_no_md    == [isdict |-> TRUE, f |-> ("title" :> "T1")]
d_no_title == [isdict |-> TRUE, f |-> ("md" :> "M1")]
d_one      == [isdict |-> TRUE, f |-> ("title" :> "T1" @@ "md" :> "M1" @@ "date" :> "D1")]
d_two      == [isdict |-> TRUE, f |-> ("title" :> "T2" @@ "md" :> "M2")]

PageData == {d_scalar, d_no_md, d_no_title, d_one, d_two}

\* the page paths a submitted sitemap may hold, in the order it holds them
Paths == <<"p.html", "q.html", "r.html">>

\* the largest number of records of a submitted sitemap
MaxRecords == 2

\* the JSON objects of at most MaxRecords members
Requests ==
    UNION {
        {[i \in 1..n |-> [key |-> Paths[ks[i]], data |-> ds[i]]] :
            ks \in {q \in [1..n -> 1..Len(Paths)] : \A i, j \in 1..n : i < j => q[i] < q[j]},
            ds \in [1..n -> PageData]} :
        n \in 0..MaxRecords}

\* what the Builder left at SITEMAP_PATH before the API was started
BuiltSitemaps ==
    {<<[key |-> "p.html", data |-> d_one]>>,
     <<[key |-> "p.html", data |-> d_one], [key |-> "q.html", data |-> d_two]>>}

(***************************************************************************)
(* The editor API as a state machine                                       *)
(***************************************************************************)

EditorIdle ==
    /\ sitemap_file = <<>>
    /\ paf_static = {}
    /\ request = <<>>
    /\ response = "none"
    /\ regenerated = FALSE

AnalyzerIdle ==
    /\ sitemap = <<>>
    /\ op = "none"
    /\ ret = <<>>
    /\ lookups = <<>>

ParserIdle ==
    /\ root_dir = <<>>
    /\ tree = <<>>
    /\ walk = <<>>
    /\ pos = 1
    /\ pstate = "idle"
    /\ parser_sitemap = <<>>
    /\ parsed = <<>>
    /\ returned = <<>>
    /\ sitemap_json = <<>>
    /\ content = [py |-> "unbound"]
    /\ legacy_sitemap = <<>>
    /\ decided = <<>>

EditorInit ==
    /\ sitemap_file \in BuiltSitemaps
    /\ paf_static = {}
    /\ request = <<>>
    /\ response = "none"
    /\ regenerated = FALSE
    /\ AnalyzerIdle
    /\ ParserIdle

\* the handler runs without an await, so a request is one step
UpdateSitemap ==
    \E R \in Requests :
        /\ request' = R
        /\ IF ~Valid(R)
           THEN /\ response' = "400"
                /\ regenerated' = FALSE
                /\ UNCHANGED <<sitemap_file, paf_static>>
           ELSE LET g == generate_site(R, paf_static)
                IN  /\ sitemap_file' = R
                    /\ regenerated' = TRUE
                    /\ paf_static' = g.out
                    /\ response' = IF g.ok THEN "200" ELSE "500"
        /\ UNCHANGED <<avars, pvars>>

EditorNext == UpdateSitemap

EditorSpec == EditorInit /\ [][EditorNext]_vars

(***************************************************************************)
(* The analyzer as a state machine                                         *)
(***************************************************************************)

AnalyzerInit ==
    /\ sitemap \in Sitemaps
    /\ op = "none"
    /\ ret = <<>>
    /\ lookups = <<>>
    /\ EditorIdle
    /\ ParserIdle

AnalyzeLinks ==
    /\ op' = "analyze_links"
    /\ ret' = analyze_links(sitemap)
    /\ lookups' = LookupsFrom(sitemap, 1, 1)
    /\ UNCHANGED <<sitemap, evars, pvars>>

GeneratePageList ==
    /\ op' = "generate_page_list"
    /\ ret' = generate_page_list(sitemap)
    /\ lookups' = LookupsFrom(sitemap, 1, 1)
    /\ UNCHANGED <<sitemap, evars, pvars>>

GenerateGraphviz ==
    /\ op' = "generate_graphviz"
    /\ ret' = generate_graphviz(sitemap)
    /\ lookups' = <<>>
    /\ UNCHANGED <<sitemap, evars, pvars>>

AnalyzerNext == AnalyzeLinks \/ GeneratePageList \/ GenerateGraphviz

AnalyzerSpec == AnalyzerInit /\ [][AnalyzerNext]_vars

(***************************************************************************)
(* Vocabulary of the properties, written from their statements and not     *)
(* from the operators above                                                *)
(***************************************************************************)

\* s begins with the characters of p
BeginsWith(s, p) == Len(s) >= Len(p) /\ \A i \in 1..Len(p) : s[i] = p[i]

\* the number of '/' characters s begins with
LeadingSlashes(s) ==
    Cardinality({n \in 1..Len(s) : \A i \in 1..n : s[i] = "/"})

\* s without the first n characters
DropFirst(s, n) == SubSeq(s, n + 1, Len(s))

\* s without all of its leading slashes
NoLeadingSlashes(s) == DropFirst(s, LeadingSlashes(s))

\* s without one leading slash, when it has one
OneSlashLess(s) == IF LeadingSlashes(s) >= 1 THEN DropFirst(s, 1) ELSE s

\* the link is external / carries a query string
External(l) == BeginsWith(l, Http)
HasQuery(l) == "?" \in {l[i] : i \in 1..Len(l)}

\* the positions <<i, j>> of the raw links of a sitemap
LinkPositions(sm) ==
    UNION {{<<i, j>> : j \in 1..Len(sm[i].links)} : i \in 1..Len(sm)}

\* the positions whose link is neither external nor a query link and
\* resolves, against its page's key, to t
ResolvingTo(sm, t) ==
    {q \in LinkPositions(sm) :
        LET l == sm[q[1]].links[q[2]]
        IN  ~External(l) /\ ~HasQuery(l) /\ Resolve(sm[q[1]].key, l) = t}

\* the sum of the values of a mapping
RECURSIVE Total(_)
Total(d) ==
    IF DOMAIN d = {} THEN 0
    ELSE LET k == CHOOSE k \in DOMAIN d : TRUE
         IN  d[k] + Total([x \in DOMAIN d \ {k} |-> d[x]])

\* the position of key k in a sitemap
PositionOf(sm, k) == CHOOSE i \in 1..Len(sm) : sm[i].key = k

\* the position of the last '/' of k (0 when k has none)
LastSlash(k) ==
    LET slashes == {i \in 1..Len(k) : k[i] = "/"}
    IN  IF slashes = {} THEN 0 ELSE CHOOSE i \in slashes : \A j \in slashes : j <= i

\* the part of k ahead of its last '/', and the segment behind it
DirOf(k) == SubSeq(k, 1, LastSlash(k) - 1)
LastSegment(k) == DropFirst(k, LastSlash(k))

UpLink(l) == BeginsWith(l, <<".", ".", "/">>)

(***************************************************************************)
(* Properties of update_sitemap                                            *)
(***************************************************************************)

\* a record that is not an object or lacks 'title' or 'md'
Malformed(data) ==
    \/ ~data.isdict
    \/ "title" \notin DOMAIN data.f
    \/ "md" \notin DOMAIN data.f

\* C1: a replacement with a malformed record, wherever it sits, is answered
\* with 400, leaves the stored sitemap file as it was and starts no
\* regeneration
C1_AtomicRejection ==
    [][(\E i \in 1..Len(request') : Malformed(request'[i].data))
         => /\ response' = "400"
            /\ sitemap_file' = sitemap_file
            /\ paf_static' = paf_static
            /\ ~regenerated']_vars

\* a malformed record behind a valid one was rejected, the stored sitemap stands
C1_Witness ==
    /\ Len(request) = 2
    /\ ~Malformed(request[1].data)
    /\ request[2].data = d_no_md
    /\ response = "400"
    /\ sitemap_file \in BuiltSitemaps

\* C2: update_sitemap is all-or-nothing: after an error response (400 or 500)
\* the stored sitemap file is the one from before the request, after success
\* it is exactly the submitted mapping
C2_AllOrNothing ==
    [][/\ response' \in {"400", "500"} => sitemap_file' = sitemap_file
       /\ response' = "200" => sitemap_file' = request']_vars

(***************************************************************************)
(* Properties of analyze_links                                             *)
(***************************************************************************)

\* C3: the counts have only sitemap keys as keys and only values >= 1, and
\* external links, query links and links that resolve to no key add to no
\* count: the counts add up to the number of the remaining links
C3_OnlyLiveInternalLinks ==
    op = "analyze_links" =>
        /\ DOMAIN ret \subseteq Keys(sitemap)
        /\ \A t \in DOMAIN ret : ret[t] >= 1
        /\ Total(ret) = Cardinality(UNION {ResolvingTo(sitemap, t) : t \in Keys(sitemap)})

\* a page lists a query link, an external-looking link and a dead link, the
\* first two being keys of the sitemap as written, and none of them is credited
C3_Witness ==
    /\ op = "analyze_links"
    /\ \E i \in 1..Len(sitemap) : sitemap[i].links = <<k_tq, k_httpd, l_dead>>
    /\ {k_tq, k_httpd} \subseteq Keys(sitemap)
    /\ DOMAIN ret \cap {k_tq, k_httpd, l_dead} = {}

\* sm with its pages in the order pi
PagesReordered(sm, pi) == [i \in 1..Len(sm) |-> sm[pi[i]]]

\* sm with the links of page n in the order rho
LinksReordered(sm, n, rho) ==
    [sm EXCEPT ![n].links = [j \in 1..Len(sm[n].links) |-> sm[n].links[rho[j]]]]

\* C4: the count of key t is the number of (page, raw link) pairs that resolve
\* to t, and visiting the pages or the links of a page in another order gives
\* the same counts
C4_CountsResolvingPairs ==
    op = "analyze_links" =>
        /\ \A t \in Keys(sitemap) : GetCount(ret, t) = Cardinality(ResolvingTo(sitemap, t))
        /\ \A pi \in Permutations(1..Len(sitemap)) :
             analyze_links(PagesReordered(sitemap, pi)) = ret
        /\ \A n \in 1..Len(sitemap) :
             \A rho \in Permutations(1..Len(sitemap[n].links)) :
               analyze_links(LinksReordered(sitemap, n, rho)) = ret

\* '/c.html' and 'c.html' on one page have added 2 to the count of c.html
C4_Witness ==
    /\ op = "analyze_links"
    /\ Len(sitemap) = 1
    /\ sitemap[1].key = k_c
    /\ sitemap[1].links = <<l_s_c, k_c>>
    /\ ret[k_c] = 2

\* C5: a '../' link on a page whose key is d/f with a '.' in f is looked up as
\* the normalized d + '/' + link, on a page whose key ends in '/' as the
\* normalized key + link, and the page so named is credited when it is a key
C5_ParentLinkFromFileKey ==
    op = "analyze_links" =>
        \A n \in 1..Len(lookups) :
            LET e == lookups[n]
            IN  UpLink(e.raw) /\ HasChar(e.k, "/") =>
                  /\ HasChar(LastSegment(e.k), ".")
                       => e.link = NormPath(DirOf(e.k) \o <<"/">> \o e.raw)
                  /\ e.k[Len(e.k)] = "/"
                       => e.link = NormPath(e.k \o e.raw)
                  /\ (HasChar(LastSegment(e.k), ".") \/ e.k[Len(e.k)] = "/")
                       /\ e.link \in Keys(sitemap)
                       => GetCount(ret, e.link) >= 1

\* ../c.html on a/b.html was looked up as c.html and credited to it, and on
\* a/b/ it was looked up as a/c.html
C5_Witness ==
    /\ op = "analyze_links"
    /\ k_c \in DOMAIN ret
    /\ \E n \in 1..Len(lookups) :
         lookups[n] = [k |-> k_abh, raw |-> l_up_c, link |-> k_c]
    /\ \E n \in 1..Len(lookups) :
         lookups[n] = [k |-> k_abd, raw |-> l_up_c, link |-> k_ac]

\* C6: a '../' link on a page whose key has no '.' in its last segment and
\* does not end in '/' is resolved with the whole key as the base directory
\* (a/b with ../c.html gives a/c.html)
C6_ParentLinkFromPlainKey ==
    op = "analyze_links" =>
        \A n \in 1..Len(lookups) :
            LET e == lookups[n]
            IN  /\ UpLink(e.raw)
                /\ ~HasChar(LastSegment(e.k), ".")
                /\ e.k[Len(e.k)] # "/"
                => e.link = NormPath(e.k \o <<"/">> \o e.raw)

\* the link has no '../' form once its leading slashes are gone, so the value
\* looked up is the link without the slashes that were stripped
PlainLookup(e) == ~UpLink(NoLeadingSlashes(e.raw))

\* C7 as stated: exactly one leading '/' is removed before the lookup
C7_StripsOneSlash ==
    op = "analyze_links" =>
        \A n \in 1..Len(lookups) :
            PlainLookup(lookups[n]) => lookups[n].link = OneSlashLess(lookups[n].raw)

\* C7 as amended: every leading '/' is removed before the lookup, and nothing
\* else of the link is changed
C7_StripsAllSlashes ==
    op = "analyze_links" =>
        \A n \in 1..Len(lookups) :
            PlainLookup(lookups[n]) => lookups[n].link = NoLeadingSlashes(lookups[n].raw)

\* //x was looked up as x and credited to it, on a page that also has the
\* link x, which was looked up unchanged
C7_Witness ==
    /\ op = "analyze_links"
    /\ \E n \in 1..Len(lookups) : lookups[n].raw = l_ss_x /\ lookups[n].link = k_x
    /\ \E n \in 1..Len(lookups) : lookups[n].raw = k_x /\ lookups[n].link = k_x
    /\ k_x \in DOMAIN ret

(***************************************************************************)
(* Properties of generate_page_list                                        *)
(***************************************************************************)

\* C8: the ranked list has each key without '?' exactly once and no key with
\* '?', is in non-increasing order of count, shows for each key the count
\* analyze_links gives it (0 when it has none), and keeps keys of equal count
\* in the order of the sitemap
C8_RankedList ==
    op = "generate_page_list" =>
        /\ \A k \in Keys(sitemap) :
             Cardinality({n \in 1..Len(ret) : ret[n].k = k}) = IF HasQuery(k) THEN 0 ELSE 1
        /\ \A n \in 1..Len(ret) : ret[n].k \in Keys(sitemap)
        /\ \A n \in 1..Len(ret) : ret[n].cnt = GetCount(analyze_links(sitemap), ret[n].k)
        /\ \A m, n \in 1..Len(ret) :
             m < n =>
               /\ ret[m].cnt >= ret[n].cnt
               /\ ret[m].cnt = ret[n].cnt
                    => PositionOf(sitemap, ret[m].k) < PositionOf(sitemap, ret[n].k)

\* the third page of the sitemap was ranked first, and the two pages ahead
\* of it in the sitemap, which tie with count 0, follow in their sitemap order
C8_Witness ==
    /\ op = "generate_page_list"
    /\ Len(sitemap) = 3
    /\ Len(ret) = 3
    /\ ret[1].k = sitemap[3].key
    /\ ret[2].k = sitemap[1].key
    /\ ret[3].k = sitemap[2].key
    /\ ret[1].cnt = 2
    /\ ret[2].cnt = 0
    /\ ret[3].cnt = 0

(***************************************************************************)
(* Properties of generate_graphviz                                         *)
(***************************************************************************)

Disallowed == {"/", "-", ".", "?", "=", "+", "&", " "}

\* the positions of the node lines of the export
NodeLines(dot) == {n \in 1..Len(dot) : dot[n].kind = "node"}
EdgeLinesOf(dot) == {n \in 1..Len(dot) : dot[n].kind = "edge"}

\* the position of the node line of the i-th page: the i-th node line
NodeLineOf(dot, i) ==
    CHOOSE n \in NodeLines(dot) : Cardinality({m \in NodeLines(dot) : m <= n}) = i

\* C9: the node identifier of a key is the key with every disallowed character
\* replaced by '_' and every other character unchanged in place, and no node
\* identifier and no edge endpoint holds a disallowed character
C9_SanitizedIdentifiers ==
    op = "generate_graphviz" =>
        /\ Cardinality(NodeLines(ret)) = Len(sitemap)
        /\ \A i \in 1..Len(sitemap) :
             LET k == sitemap[i].key
                 uid == ret[NodeLineOf(ret, i)].uid
             IN  /\ Len(uid) = Len(k)
                 /\ \A c \in 1..Len(k) :
                      uid[c] = IF k[c] \in Disallowed THEN "_" ELSE k[c]
        /\ \A n \in 1..Len(ret) :
             /\ \A c \in 1..Len(ret[n].uid) : ret[n].uid[c] \notin Disallowed
             /\ ret[n].kind = "edge" =>
                  \A c \in 1..Len(ret[n].arg) : ret[n].arg[c] \notin Disallowed

\* node/25153.html was declared as node_25153_html, and a link that holds
\* every disallowed character but '-' and '.' was made an edge endpoint
C9_Witness ==
    /\ op = "generate_graphviz"
    /\ \E n \in NodeLines(ret) :
         ret[n].uid = <<"n", "o", "d", "e", "_", "2", "5", "1", "5", "3", "_", "h", "t", "m", "l">>
    /\ \E i \in 1..Len(sitemap) : \E j \in 1..Len(sitemap[i].links) :
         sitemap[i].links[j] = k_odd
    /\ \E n \in EdgeLinesOf(ret) :
         ret[n].arg = <<"q", "_", "1", "_", "r", "_", "s", "_", "t">>

\* the link is empty or holds only whitespace
Blank(l) == \A c \in 1..Len(l) : l[c] \in Whitespace

\* the link is '/' once the whitespace around it is gone
RootMarker(l) ==
    /\ Cardinality({c \in 1..Len(l) : l[c] = "/"}) = 1
    /\ \A c \in 1..Len(l) : l[c] = "/" \/ l[c] \in Whitespace

\* C10 as stated: an entry gets an edge when it is non-empty after removal of
\* its leading slashes and does not then start with 'http', or is exactly
\* '/'; an empty, whitespace-only or external entry gets none
GetsEdgeAsStated(l) ==
    \/ l = <<"/">>
    \/ /\ NoLeadingSlashes(l) # <<>>
       /\ ~Blank(l)
       /\ ~External(NoLeadingSlashes(l))

\* C10 as amended: an entry gets an edge when it is '/' once the whitespace
\* around it is gone, or is not blank after removal of its leading slashes
\* and does not then start with 'http'
GetsEdgeAsAmended(l) ==
    \/ RootMarker(l)
    \/ /\ ~Blank(NoLeadingSlashes(l))
       /\ ~External(NoLeadingSlashes(l))

\* the entries of a link list that get an edge, in order
RECURSIVE EdgeEntries(_, _)
EdgeEntries(GetsEdge(_), links) ==
    IF links = <<>> THEN <<>>
    ELSE (IF GetsEdge(Head(links)) THEN <<Head(links)>> ELSE <<>>)
         \o EdgeEntries(GetsEdge, Tail(links))

\* the export is, page by page in sitemap order, one node line followed by one
\* edge line from that node per entry that gets an edge, the edge of a root
\* marker pointing at index_html
RECURSIVE PageBlocks(_, _, _, _)
PageBlocks(GetsEdge(_), sm, dot, at) ==
    IF sm = <<>> THEN at = Len(dot) + 1
    ELSE LET entries == EdgeEntries(GetsEdge, Head(sm).links)
         IN  /\ at + Len(entries) <= Len(dot)
             /\ dot[at].kind = "node"
             /\ \A r \in 1..Len(entries) :
                  /\ dot[at + r].kind = "edge"
                  /\ dot[at + r].uid = dot[at].uid
                  /\ RootMarker(entries[r]) =>
                       dot[at + r].arg = <<"i", "n", "d", "e", "x", "_", "h", "t", "m", "l">>
             /\ PageBlocks(GetsEdge, Tail(sm), dot, at + Len(entries) + 1)

\* C10 (as stated): one node declaration per page and, per page, one edge per
\* entry that is non-empty after removal of leading slashes and not external;
\* '/' gives an edge to index_html
C10_EdgePerLinkAsStated ==
    op = "generate_graphviz" => PageBlocks(GetsEdgeAsStated, sitemap, ret, 1)

\* C10 (as amended): one node declaration per page and, per page, one edge per
\* entry that is a root marker or is not blank after removal of leading
\* slashes and not external; a root marker gives an edge to index_html
C10_EdgePerLink ==
    op = "generate_graphviz" => PageBlocks(GetsEdgeAsAmended, sitemap, ret, 1)

\* a page with the links '/', '' and ' ' got exactly one edge, to index_html,
\* and a page with the links '// ', '/ ' and a plain link got two
C10_Witness ==
    /\ op = "generate_graphviz"
    /\ Len(sitemap) = 2
    /\ sitemap[1].links = <<l_root, l_empty, l_blank>>
    /\ sitemap[2].links = <<l_ss_sp, l_s_sp, k_odd>>
    /\ Len(ret) = 5
    /\ ret[2].arg = <<"i", "n", "d", "e", "x", "_", "h", "t", "m", "l">>
    /\ ret[4].arg = <<"i", "n", "d", "e", "x", "_", "h", "t", "m", "l">>

(***************************************************************************)
(* SiteParser (palimpsest/parser.py; legacy twin: sitemap.py parse())      *)
(*                                                                         *)
(* A Python value that may be None, False or a str is a tagged record.     *)
(* A document is what BeautifulSoup's selectors see of a file:             *)
(*   decodable  whether the bytes decode as UTF-8                          *)
(*   title      text of the first <title> element, PyNone without one      *)
(*   nodes      the .node elements in document order, each with            *)
(*                title    whether it has a .title descendant              *)
(*                content  its .content descendant: PyNone, or a Tag with  *)
(*                         the src values of its img elements              *)
(*   submitted  text of the first .node .submitted element, or PyNone      *)
(*   galleries, images, pager   whether such a block is present            *)
(*   hrefs      the href values of the <a> elements in document order      *)
(***************************************************************************)

PyNone == [py |-> "None"]
PyFalse == [py |-> "False"]
PyStr(s) == [py |-> "str", s |-> s]
Tag(imgs) == [py |-> "Tag", imgs |-> imgs]

\* str.split(sep) for a separator of any length: left to right, non-overlapping
RECURSIVE SplitStrFrom(_, _, _, _)
SplitStrFrom(s, sep, i, cur) ==
    IF i > Len(s) THEN <<cur>>
    ELSE IF i + Len(sep) - 1 <= Len(s) /\ SubSeq(s, i, i + Len(sep) - 1) = sep
         THEN <<cur>> \o SplitStrFrom(s, sep, i + Len(sep), <<>>)
         ELSE SplitStrFrom(s, sep, i + 1, Append(cur, s[i]))

SplitStr(s, sep) == SplitStrFrom(s, sep, 1, <<>>)

\* `sub in s`
Contains(s, sub) ==
    \E i \in 1..(Len(s) - Len(sub) + 1) : SubSeq(s, i, i + Len(sub) - 1) = sub

should_skip_file(path) ==
    \/ StartsWith(path, <<"p", "a", "-", "f", ".", "n", "e", "t", "/", "b", "o", "o", "k", "/", "e", "x", "p", "o", "r", "t">>)
    \/ Contains(path, <<"s", "i", "z", "e", "=">>)
    \/ StartsWith(path, <<"p", "a", "-", "f", ".", "n", "e", "t", "/", "t", "r", "a", "c", "k", "e", "r", "?">>)
    \/ StartsWith(path, <<"p", "a", "-", "f", ".", "n", "e", "t", "/", "f", "i", "l", "e", "s", "/">>)

\* a plausible slip: the `or 'pa-f'` default is left out
extract_title_no_default(soup) ==
    IF soup.title = PyNone THEN PyNone
    ELSE LET segs == SplitStr(soup.title.s, <<" ", "|">>)
         IN  PyStr(Join(SubSeq(segs, 1, Len(segs) - 1), <<" ", "|">>))

\* PyNone stands for the IndexError branch of select("title")[0]
extract_title(soup) ==
    IF soup.title = PyNone THEN PyNone
    ELSE LET segs == SplitStr(soup.title.s, <<" ", "|">>)
             title == Join(SubSeq(segs, 1, Len(segs) - 1), <<" ", "|">>)
         IN  PyStr(IF title = <<>> THEN <<"p", "a", "-", "f">> ELSE title)

Last(q) == q[Len(q)]

\* href.split(a)[-1].split(b)[-1].split(c)[-1]
clean_href(href) ==
    Last(SplitStr(Last(SplitStr(Last(SplitStr(href, <<"h", "t", "t", "p", "s", ":", "/", "/", "p", "a", "-", "f", ".", "n", "e", "t">>)),
                                <<"h", "t", "t", "p", ":", "/", "/", "p", "a", "-", "f", ".", "n", "e", "t">>)),
                  <<"h", "t", "t", "p", ":", "/", "/", "w", "w", "w", ".", "p", "a", "-", "f", ".", "n", "e", "t">>))

\* the list `links` after the loop over the anchors from the i-th on
RECURSIVE LinksFrom(_, _)
LinksFrom(hrefs, i) ==
    IF i > Len(hrefs) THEN <<>>
    ELSE LET href == hrefs[i]
         IN  IF href = PyNone \/ href.s = <<>> \/ StartsWith(href.s, <<"m", "a", "i", "l", "t", "o", ":">>)
             THEN LinksFrom(hrefs, i + 1)
             ELSE <<clean_href(href.s)>> \o LinksFrom(hrefs, i + 1)

Range(q) == {q[i] : i \in 1..Len(q)}

\* list(S): the elements of a set once each, in an order Python does not fix
Listings(S) ==
    {q \in [1..Cardinality(S) -> S] : \A i, j \in DOMAIN q : q[i] = q[j] => i = j}

\* every value list(set(links)) can have
extract_links(soup) == Listings(Range(LinksFrom(soup.hrefs, 1)))

\* what markdownify returns for an element: named by the element converted
\* (node is 0 for the page-level sections)
Md(el, node) == <<el, node>>

\* soup.select(".node .content"), each with the index of its node
RECURSIVE SelectContent(_, _)
SelectContent(nodes, i) ==
    IF i > Len(nodes) THEN <<>>
    ELSE (IF nodes[i].content = PyNone THEN <<>>
          ELSE <<[node |-> i, tag |-> nodes[i].content]>>)
         \o SelectContent(nodes, i + 1)

\* the loop over soup.select(".node") of the multi-block branch
RECURSIVE NodesMd(_, _)
NodesMd(nodes, i) ==
    IF i > Len(nodes) THEN <<>>
    ELSE (IF nodes[i].title THEN <<Md("title", i)>> ELSE <<>>)
         \o (IF nodes[i].content # PyNone THEN <<Md("content", i)>> ELSE <<>>)
         \o NodesMd(nodes, i + 1)

\* the loop over [".galleries", ".images", ".pager"]
SectionsMd(soup) ==
    (IF soup.galleries THEN <<Md("\n\n", 0), Md("galleries", 0)>> ELSE <<>>)
    \o (IF soup.images THEN <<Md("\n\n", 0), Md("images", 0)>> ELSE <<>>)
    \o (IF soup.pager THEN <<Md("\n\n", 0), Md("pager", 0)>> ELSE <<>>)

\* a plausible slip: only a leading "./" is removed from the src
image_src_prefix_only(src) ==
    IF StartsWith(src, <<".", "/">>) THEN SubSeq(src, 3, Len(src)) ELSE src

\* src.lstrip("./")
image_src(src) == LStrip(src, {".", "/"})

\* a plausible slip: any number of img elements sets the image
single_image_any(imgs) ==
    IF Len(imgs) >= 1
    THEN IF imgs[1] = PyNone
         THEN [raised |-> TRUE]
         ELSE [raised |-> FALSE, image |-> PyStr(image_src(imgs[1].s))]
    ELSE [raised |-> FALSE, image |-> PyFalse]

\* lines 117-118: .get("src") is None without the attribute, and None has no
\* lstrip: AttributeError
single_image(imgs) ==
    IF Len(imgs) = 1
    THEN IF imgs[1] = PyNone
         THEN [raised |-> TRUE]
         ELSE [raised |-> FALSE, image |-> PyStr(image_src(imgs[1].s))]
    ELSE [raised |-> FALSE, image |-> PyFalse]

extract_content(soup) ==
    LET blocks == SelectContent(soup.nodes, 1)
        first == IF Len(blocks) > 1
                 THEN [raised |-> FALSE, md |-> NodesMd(soup.nodes, 1),
                       image |-> PyFalse]
                 ELSE IF blocks = <<>>
                 THEN [raised |-> FALSE, md |-> <<>>, image |-> PyFalse]
                 ELSE LET im == single_image(blocks[1].tag.imgs)
                      IN  IF im.raised
                          THEN [raised |-> TRUE, md |-> <<>>, image |-> PyFalse]
                          ELSE [raised |-> FALSE,
                                md |-> <<Md("content", blocks[1].node)>>,
                                image |-> im.image]
    IN  IF first.raised THEN first
        ELSE [first EXCEPT !.md = @ \o SectionsMd(soup)]

Digits == {"0", "1", "2", "3", "4", "5", "6", "7", "8", "9"}

\* \d{4}-\d{2}-\d{2} matches at position i
DateAt(s, i) ==
    /\ i + 9 <= Len(s)
    /\ \A j \in {0, 1, 2, 3, 5, 6, 8, 9} : s[i + j] \in Digits
    /\ s[i + 4] = "-"
    /\ s[i + 7] = "-"

extract_date(soup) ==
    IF soup.submitted = PyNone THEN PyNone
    ELSE LET s == soup.submitted.s
             at == {i \in 1..Len(s) : DateAt(s, i)}
         IN  IF at = {} THEN PyNone
             ELSE LET i == CHOOSE a \in at : \A b \in at : a <= b
                  IN  PyStr(SubSeq(s, i, i + 9))

\* a plausible slip: the pager counts as content too
has_content_or_pager(soup) ==
    \/ SelectContent(soup.nodes, 1) # <<>>
    \/ soup.galleries
    \/ soup.images
    \/ soup.pager

has_content(soup) ==
    \/ SelectContent(soup.nodes, 1) # <<>>
    \/ soup.galleries
    \/ soup.images

\* the ways parse_file ends: `return None`, an exception, `return {...}`
ReturnsNone == [kind |-> "None"]
Raises == [kind |-> "raise"]
Returns(rec) == [kind |-> "record", rec |-> rec]

\* links is the value extract_links returned in this call
parse_file(file_path, soup, links) ==
    IF should_skip_file(file_path) THEN ReturnsNone
    ELSE IF ~soup.decodable THEN ReturnsNone
    ELSE IF extract_title(soup) = PyNone THEN ReturnsNone
    ELSE IF ~has_content(soup) THEN ReturnsNone
    ELSE LET c == extract_content(soup)
         IN  IF c.raised THEN Raises
             ELSE Returns([title |-> extract_title(soup).s,
                           md |-> c.md,
                           date |-> extract_date(soup),
                           image |-> c.image,
                           links |-> links])

(***************************************************************************)
(* Inputs of the parser: documents and file trees                          *)
(***************************************************************************)

\* a page as the mirror has many: one node holding a title and a content block
d_page ==
    [decodable |-> TRUE,
     title     |-> PyStr(<<"H", "o", "m", "e", " ", "|", " ", "p", "a", "-", "f">>),
     nodes     |-> <<[title |-> TRUE, content |-> Tag(<<>>)]>>,
     submitted |-> PyNone,
     galleries |-> FALSE,
     images    |-> FALSE,
     pager     |-> FALSE,
     hrefs     |-> <<>>]

d_binary == [d_page EXCEPT !.decodable = FALSE]

TitleTexts ==
    {<<"H", "o", "m", "e", " ", "|", " ", "p", "a", "-", "f">>, <<"p", "a", "-", "f">>, <<>>, <<"A", " ", "|", " ", "B", " ", "|", " ", "p", "a", "-", "f">>, <<" ", "|", " ", "p", "a", "-", "f">>, <<"A", " ", "|">>, <<" ", "|">>,
     <<"A", " ", "|", " ", "|", " ", "b">>, <<"A", "|", "b">>, <<"A", " ", " ", "|", " ", "b">>}

TitleDocs == {[d_page EXCEPT !.title = PyStr(s)] : s \in TitleTexts}

\* every combination of the blocks the content check looks at, with and
\* without a title element
NodeShapes ==
    {<<>>,
     <<[title |-> TRUE, content |-> PyNone]>>,
     <<[title |-> FALSE, content |-> Tag(<<>>)]>>}

ShapeDocs ==
    {[d_page EXCEPT !.title = t, !.nodes = n, !.galleries = g, !.images = i,
                    !.pager = p] :
        t \in {PyNone, PyStr(<<"T", " ", "|", " ", "p", "a", "-", "f">>)}, n \in NodeShapes,
        g \in BOOLEAN, i \in BOOLEAN, p \in BOOLEAN}

Srcs ==
    {<<".", "/", "a", ".", "p", "n", "g">>, <<"a", ".", "p", "n", "g">>, <<".", ".", "/", "a", ".", "p", "n", "g">>, <<"/", "a", ".", "p", "n", "g">>, <<".", ".", "/", ".", ".", "/", "f", "/", "a", ".", "p", "n", "g">>, <<".", "/", ".", "a">>,
     <<".", "/", "/", "a">>, <<"f", "/", ".", "/", "a">>, <<>>, <<".", "/">>}

\* the img elements of one content block: none, one (with or without a src
\* attribute), two
ImgLists ==
    {<<>>, <<PyNone>>, <<PyStr(<<"a", ".", "p", "n", "g">>), PyStr(<<".", "/", "b", ".", "p", "n", "g">>)>>,
     <<PyNone, PyStr(<<"a", ".", "p", "n", "g">>)>>}
    \cup {<<PyStr(s)>> : s \in Srcs}

ImageDocs ==
    {[d_page EXCEPT !.nodes = <<[title |-> TRUE, content |-> Tag(imgs)]>>,
                    !.galleries = g] :
        imgs \in ImgLists, g \in BOOLEAN}
    \cup
    \* more than one primary content block
    {[d_page EXCEPT !.nodes = <<[title |-> t, content |-> Tag(imgs)],
                                [title |-> TRUE, content |-> PyNone],
                                [title |-> FALSE, content |-> Tag(<<>>)]>>,
                    !.pager = TRUE] :
        imgs \in {<<>>, <<PyNone>>, <<PyStr(<<".", "/", "a", ".", "p", "n", "g">>)>>}, t \in BOOLEAN}

\* hrefs the filter of extract_links is about, and hrefs its cleaning is about
FilterHrefs ==
    {PyNone, PyStr(<<>>), PyStr(<<"m", "a", "i", "l", "t", "o", ":", "a", "@", "b">>), PyStr(<<"h", "t", "t", "p", "s", ":", "/", "/", "p", "a", "-", "f", ".", "n", "e", "t">>),
     PyStr(<<"h", "t", "t", "p", "s", ":", "/", "/", "p", "a", "-", "f", ".", "n", "e", "t", "/", "x">>), PyStr(<<".", ".", "/", "x">>)}

SiteHrefs ==
    {PyStr(<<"h", "t", "t", "p", "s", ":", "/", "/", "p", "a", "-", "f", ".", "n", "e", "t", "/", "x">>), PyStr(<<"h", "t", "t", "p", ":", "/", "/", "p", "a", "-", "f", ".", "n", "e", "t", "/", "x">>),
     PyStr(<<"h", "t", "t", "p", ":", "/", "/", "w", "w", "w", ".", "p", "a", "-", "f", ".", "n", "e", "t", "/", "x">>), PyStr(<<"h", "t", "t", "p", ":", "/", "/", "o", ".", "o", "r", "g", "/", "x">>),
     PyStr(<<"h", "t", "t", "p", ":", "/", "/", "o", ".", "o", "r", "g", "/", "?", "u", "=", "h", "t", "t", "p", ":", "/", "/", "p", "a", "-", "f", ".", "n", "e", "t", "/", "x">>),
     PyStr(<<"h", "t", "t", "p", "s", ":", "/", "/", "p", "a", "-", "f", ".", "n", "e", "t", ".", "o", ".", "o", "r", "g", "/", "x">>)}

MaxAnchors == 2

RECURSIVE SeqsUpTo(_, _)
SeqsUpTo(S, n) ==
    IF n = 0 THEN {<<>>}
    ELSE LET shorter == SeqsUpTo(S, n - 1)
         IN  shorter \cup {Append(q, x) : q \in shorter, x \in S}

LinkDocs ==
    {[d_page EXCEPT !.hrefs = h] :
        h \in SeqsUpTo(FilterHrefs, MaxAnchors) \cup SeqsUpTo(SiteHrefs, MaxAnchors)}

SubmittedTexts ==
    {<<"S", "u", "b", "m", "i", "t", "t", "e", "d", " ", "o", "n", " ", "2", "0", "0", "9", "-", "0", "1", "-", "0", "2">>, <<"1", "2", "0", "0", "9", "-", "0", "1", "-", "0", "2", "3", " ", "2", "0", "1", "0", "-", "1", "1", "-", "1", "2">>, <<"2", "0", "0", "9", "-", "1", "-", "0", "2">>,
     <<"2", "0", "0", "9", "/", "0", "1", "/", "0", "2">>, <<>>}

DateDocs ==
    {[d_page EXCEPT !.submitted = PyStr(s)] : s \in SubmittedTexts}

Docs == {d_binary} \cup TitleDocs \cup ShapeDocs \cup ImageDocs \cup LinkDocs
        \cup DateDocs

\* a page that can be told from every other file of its tree: titled by its path
PageAt(path) == <<path, [d_page EXCEPT !.title = PyStr(path \o <<" ", "|", " ", "p", "a", "-", "f">>)]>>

default_root == <<"p", "a", "-", "f", ".", "n", "e", "t", "/">>
other_root == <<"a", "/">>

\* the four exclusion classes below a root, and an ordinary page
ExportPath(root) == root \o <<"b", "o", "o", "k", "/", "e", "x", "p", "o", "r", "t", "/", "x">>
SizePath(root) == root \o <<"b", "?", "s", "i", "z", "e", "=", "1", "0", "0">>
TrackerPath(root) == root \o <<"t", "r", "a", "c", "k", "e", "r", "?", "x", "=", "1">>
AssetPath(root) == root \o <<"f", "i", "l", "e", "s", "/", "y", ".", "p", "n", "g">>
IndexPath(root) == root \o <<"i", "n", "d", "e", "x", ".", "h", "t", "m", "l">>

MaxFiles == 3

\* a family of file trees: the trees are the sets of at most `max` (and at
\* most MaxFiles) of its files
TreeFamilies == {
    \* one file, every document
    [root  |-> default_root,
     files |-> {<<<<"p", "a", "-", "f", ".", "n", "e", "t", "/", "p", ".", "h", "t", "m", "l">>, d>> : d \in Docs},
     max   |-> 1],
    \* the exclusion classes below the default root and below another one
    [root  |-> default_root,
     files |-> {PageAt(ExportPath(default_root)), PageAt(SizePath(default_root)),
                PageAt(TrackerPath(default_root)), PageAt(AssetPath(default_root)),
                PageAt(IndexPath(default_root))},
     max   |-> MaxFiles],
    [root  |-> other_root,
     files |-> {PageAt(ExportPath(other_root)), PageAt(SizePath(other_root)),
                PageAt(TrackerPath(other_root)), PageAt(AssetPath(other_root)),
                PageAt(IndexPath(other_root))},
     max   |-> MaxFiles],
    \* the root's name again in a deeper segment
    [root  |-> default_root,
     files |-> {PageAt(<<"p", "a", "-", "f", ".", "n", "e", "t", "/", "s", "i", "t", "e", "s", "/", "p", "a", "-", "f", ".", "n", "e", "t", "/", "f", "i", "l", "e", "s", "/", "x">>),
                PageAt(<<"p", "a", "-", "f", ".", "n", "e", "t", "/", "s", "i", "t", "e", "s", "/", "p", "a", "-", "f", ".", "n", "e", "t", "/", "f", "i", "l", "e", "s", "/", "y">>),
                PageAt(<<"p", "a", "-", "f", ".", "n", "e", "t", "/", "p", "a", "-", "f", ".", "n", "e", "t", "/", "z">>),
                PageAt(IndexPath(default_root))},
     max   |-> MaxFiles],
    \* pages in two directories, one of them with an img that has no src
    [root  |-> other_root,
     files |-> {PageAt(<<"a", "/", "i", ".", "h", "t", "m", "l">>), PageAt(<<"a", "/", "n", "/", "1", ".", "h", "t", "m", "l">>),
                <<<<"a", "/", "n", "/", "2", ".", "h", "t", "m", "l">>,
                  [d_page EXCEPT !.nodes =
                      <<[title |-> TRUE, content |-> Tag(<<PyNone>>)]>>]>>,
                <<<<"a", "/", "n", "/", "3", ".", "b", "i", "n">>, d_binary>>},
     max   |-> MaxFiles]
}

Min(a, b) == IF a <= b THEN a ELSE b

TreeOf(F) ==
    [p \in {f[1] : f \in F} |-> (CHOOSE f \in F : f[1] = p)[2]]

\* the subsets of S with at most n elements
RECURSIVE SubsetsUpTo(_, _)
SubsetsUpTo(S, n) ==
    IF n = 0 THEN {{}}
    ELSE LET smaller == SubsetsUpTo(S, n - 1)
         IN  smaller \cup {G \cup {x} : G \in smaller, x \in S}

Trees(fam) ==
    {TreeOf(F) : F \in SubsetsUpTo(fam.files, Min(fam.max, MaxFiles)) \ {{}}}

(***************************************************************************)
(* SiteParser.parse as a state machine: one step per file                  *)
(***************************************************************************)

\* os.path.join(dirpath, "") of a file path: up to its last '/'
Dirname(path) ==
    LET at == {i \in 1..Len(path) : path[i] = "/"}
    IN  IF at = {} THEN <<>>
        ELSE SubSeq(path, 1, CHOOSE i \in at : \A j \in at : j <= i)

\* the directories os.walk visits
Dirs(paths) ==
    UNION {{SubSeq(p, 1, i) : i \in {j \in 1..Len(p) : p[j] = "/"}} : p \in paths}

\* os.walk is top-down: a directory's own files come before those of its
\* sub-directories, and each sub-directory is finished before the next one;
\* the order inside a directory is the file system's
IsWalk(q) ==
    /\ \A i, j \in DOMAIN q :
          (i < j) => ~(/\ Dirname(q[j]) # Dirname(q[i])
                       /\ StartsWith(Dirname(q[i]), Dirname(q[j])))
    /\ \A d \in Dirs(Range(q)) :
          \A i, j, k \in DOMAIN q :
              (i < j /\ j < k /\ StartsWith(q[i], d) /\ StartsWith(q[k], d))
                  => StartsWith(q[j], d)

WalkOrders(t) == {q \in Listings(DOMAIN t) : IsWalk(q)}

\* json.dump of one value of a record
JsonString(s) == [json |-> "string", s |-> s]
JsonValue(v) ==
    IF v = PyNone THEN [json |-> "null"]
    ELSE IF v = PyFalse THEN [json |-> "false"]
    ELSE JsonString(v.s)

\* json.dump(self.sitemap): every key of every record is written
JsonDump(sm) ==
    [k \in DOMAIN sm |->
        [title |-> JsonString(sm[k].title),
         md    |-> JsonString(sm[k].md),
         date  |-> JsonValue(sm[k].date),
         image |-> JsonValue(sm[k].image),
         links |-> [i \in DOMAIN sm[k].links |-> JsonString(sm[k].links[i])]]]

MaxCalls == 2

\* what a file's parsing ended in, the links of a record taken as a set
Decision(out) ==
    IF out.kind = "record" /\ "links" \in DOMAIN out.rec
    THEN [out EXCEPT !.rec.links = Range(@)]
    ELSE out

\* the history with one more outcome for the file
Decide(d, path, out) ==
    (path :> ((IF path \in DOMAIN d THEN d[path] ELSE {}) \cup {Decision(out)}))
    @@ d

\* the legacy Builder is not running
LegacyIdle ==
    /\ content = [py |-> "unbound"]
    /\ legacy_sitemap = <<>>

ParserInit ==
    /\ \E fam \in TreeFamilies :
          /\ root_dir = fam.root
          /\ tree \in Trees(fam)
    /\ walk = <<>>
    /\ pos = 1
    /\ pstate = "idle"
    /\ parser_sitemap = <<>>
    /\ parsed = <<>>
    /\ returned = <<>>
    /\ sitemap_json = <<>>
    /\ decided = <<>>
    /\ LegacyIdle
    /\ EditorIdle
    /\ AnalyzerIdle

\* parse() is entered: line 215, and os.walk fixes an order
ParseCall ==
    /\ pstate # "walking"
    /\ Len(returned) < MaxCalls
    /\ walk' \in WalkOrders(tree)
    /\ pos' = 1
    /\ pstate' = "walking"
    /\ parser_sitemap' = <<>>
    /\ parsed' = <<>>
    /\ UNCHANGED <<root_dir, tree, returned, sitemap_json, decided, lvars, avars,
                   evars>>

\* one pass of the loop body, lines 218-226
ParseFile ==
    /\ pstate = "walking"
    /\ pos <= Len(walk)
    /\ LET file_path == walk[pos]
           uid == SplitStr(file_path, root_dir)[2]
       IN  \E links \in extract_links(tree[file_path]) :
              LET parsed_data == parse_file(file_path, tree[file_path], links)
              IN  /\ parsed' = <<[path |-> file_path, uid |-> uid,
                                  doc |-> tree[file_path], out |-> parsed_data]>>
                  /\ decided' = Decide(decided, file_path, parsed_data)
                  /\ IF parsed_data = Raises
                     THEN /\ pstate' = "raised"
                          /\ UNCHANGED <<pos, parser_sitemap>>
                     ELSE /\ pos' = pos + 1
                          /\ pstate' = "walking"
                          /\ parser_sitemap' =
                                IF parsed_data = ReturnsNone THEN parser_sitemap
                                ELSE (uid :> parsed_data.rec) @@ parser_sitemap
    /\ UNCHANGED <<root_dir, tree, walk, returned, sitemap_json, lvars, avars,
                   evars>>

\* the walk is over: line 228
ParseReturn ==
    /\ pstate = "walking"
    /\ pos > Len(walk)
    /\ pstate' = "returned"
    /\ returned' = Append(returned, parser_sitemap)
    /\ UNCHANGED <<root_dir, tree, walk, pos, parser_sitemap, parsed, sitemap_json,
                   decided, lvars, avars, evars>>

SaveSitemap ==
    /\ pstate = "returned"
    /\ sitemap_json' = <<JsonDump(parser_sitemap)>>
    /\ UNCHANGED <<root_dir, tree, walk, pos, pstate, parser_sitemap, parsed,
                   returned, decided, lvars, avars, evars>>

ParserNext == ParseCall \/ ParseFile \/ ParseReturn \/ SaveSitemap

ParserSpec == ParserInit /\ [][ParserNext]_vars

(***************************************************************************)
(* Vocabulary of the parser properties                                     *)
(***************************************************************************)

\* the parse_file calls recorded in the state (none or the last one)
Calls == Range(parsed)

\* the positions at which sep occurs in s
Occurrences(s, sep) ==
    {i \in 1..Len(s) : i + Len(sep) - 1 <= Len(s)
                         /\ \A j \in 1..Len(sep) : s[i + j - 1] = sep[j]}

Greatest(S) == CHOOSE i \in S : \A j \in S : j <= i

\* s split on ' |', final segment discarded, rest re-joined with ' |': what
\* stands before the last ' |' of s, nothing when s has none
BeforeLastBar(s) ==
    IF Occurrences(s, <<" ", "|">>) = {} THEN <<>>
    ELSE SubSeq(s, 1, Greatest(Occurrences(s, <<" ", "|">>)) - 1)

StatedTitle(s) == IF BeforeLastBar(s) = <<>> THEN <<"p", "a", "-", "f">> ELSE BeforeLastBar(s)

\* C11: for a document whose title element has text s, extract_title returns
\* what stands before the last ' |' of s, and 'pa-f' when that is empty (so
\* for every s without ' |'); the title is never empty, 'Home | pa-f' gives
\* 'Home', and without a title element extract_title gives None and parse_file
\* returns no record.
C11_TitleRule ==
    \A c \in Calls :
        IF c.doc.title = PyNone
        THEN /\ extract_title(c.doc) = PyNone
             /\ c.out = ReturnsNone
        ELSE LET s == c.doc.title.s
             IN  /\ extract_title(c.doc) = PyStr(StatedTitle(s))
                 /\ extract_title(c.doc).s # <<>>
                 /\ (Occurrences(s, <<" ", "|">>) = {}) => extract_title(c.doc).s = <<"p", "a", "-", "f">>
                 /\ (s = <<"H", "o", "m", "e", " ", "|", " ", "p", "a", "-", "f">>) => extract_title(c.doc).s = <<"H", "o", "m", "e">>
                 /\ (c.out.kind = "record") => c.out.rec.title = StatedTitle(s)

\* a title without ' |' was parsed and the record is titled 'pa-f'
C11_Witness ==
    \E c \in Calls :
        /\ c.doc.title = PyStr(<<"A", "|", "b">>)
        /\ c.out.kind = "record"
        /\ c.out.rec.title = <<"p", "a", "-", "f">>

\* the document has a primary content block (.node .content)
HasPrimary(doc) == \E i \in DOMAIN doc.nodes : doc.nodes[i].content # PyNone

\* C12: parse_file returns a record only for a document that has a title
\* element and at least one of a primary content block, a gallery block and an
\* images block; a title with a pager block alone gives None, and so do all
\* three blocks without a title element.
C12_RecordNeedsTitleAndContent ==
    \A c \in Calls :
        /\ (c.out.kind = "record") =>
              /\ c.doc.title # PyNone
              /\ HasPrimary(c.doc) \/ c.doc.galleries \/ c.doc.images
        /\ (/\ c.doc.title # PyNone
            /\ c.doc.pager
            /\ ~HasPrimary(c.doc) /\ ~c.doc.galleries /\ ~c.doc.images)
              => c.out = ReturnsNone
        /\ (/\ c.doc.title = PyNone
            /\ HasPrimary(c.doc) /\ c.doc.galleries /\ c.doc.images)
              => c.out = ReturnsNone

\* a readable page with a title and a pager block only was parsed: no record
C12_Witness ==
    \E c \in Calls :
        /\ c.doc.decodable
        /\ ~should_skip_file(c.path)
        /\ c.doc.title # PyNone
        /\ c.doc.pager
        /\ ~HasPrimary(c.doc) /\ ~c.doc.galleries /\ ~c.doc.images
        /\ c.doc.nodes # <<>>
        /\ c.out = ReturnsNone

\* the nodes that hold a primary content block
PrimaryBlocks(doc) == {i \in DOMAIN doc.nodes : doc.nodes[i].content # PyNone}

\* the img elements of the only primary content block
OnlyBlockImgs(doc) == doc.nodes[CHOOSE i \in PrimaryBlocks(doc) : TRUE].content.imgs

\* exactly one primary content block, holding exactly one img, which has a src
OneBlockOneSrc(doc) ==
    /\ Cardinality(PrimaryBlocks(doc)) = 1
    /\ Len(OnlyBlockImgs(doc)) = 1
    /\ OnlyBlockImgs(doc)[1] # PyNone

\* s without a leading './', s itself when it does not start with './'
WithoutDotSlash(s) ==
    IF Len(s) >= 2 /\ s[1] = "." /\ s[2] = "/" THEN [i \in 1..(Len(s) - 2) |-> s[i + 2]]
    ELSE s

\* t is s without its leading run of '.' and '/' characters
WithoutLeadingDotsAndSlashes(s, t) ==
    \E n \in 0..Len(s) :
        /\ \A i \in 1..n : s[i] \in {".", "/"}
        /\ n < Len(s) => s[n + 1] \notin {".", "/"}
        /\ t = [i \in 1..(Len(s) - n) |-> s[i + n]]

\* C13 as stated: with exactly one primary content block holding exactly one
\* img with src s, the record's image is s without its leading './' when s
\* starts with './' and s unchanged otherwise; no other leading character
\* is removed.
C13_ImageDropsDotSlashOnly ==
    \A c \in Calls :
        (c.out.kind = "record" /\ OneBlockOneSrc(c.doc)) =>
            c.out.rec.image = PyStr(WithoutDotSlash(OnlyBlockImgs(c.doc)[1].s))

\* C13 as amended: with exactly one primary content block holding exactly one
\* img with src s, the record's image is s without its whole leading run of
\* '.' and '/' characters ('./a' , '../a', '/a' and './/a' all give 'a'); a src
\* that starts with another character is recorded unchanged.
C13_ImageDropsLeadingDotsAndSlashes ==
    \A c \in Calls :
        (c.out.kind = "record" /\ OneBlockOneSrc(c.doc)) =>
            LET s == OnlyBlockImgs(c.doc)[1].s
            IN  /\ c.out.rec.image.py = "str"
                /\ WithoutLeadingDotsAndSlashes(s, c.out.rec.image.s)
                /\ (s # <<>> /\ s[1] \notin {".", "/"}) => c.out.rec.image.s = s

\* the only img of the only content block has src '../../f/a.png' and the
\* record's image is 'f/a.png'
C13_Witness ==
    \E c \in Calls :
        /\ OneBlockOneSrc(c.doc)
        /\ OnlyBlockImgs(c.doc)[1].s = <<".", ".", "/", ".", ".", "/", "f", "/", "a", ".", "p", "n", "g">>
        /\ c.out.kind = "record"
        /\ c.out.rec.image = PyStr(<<"f", "/", "a", ".", "p", "n", "g">>)

\* the content block rule gives the page an image: exactly one primary
\* content block, and exactly one img in it
HasSingleImage(doc) ==
    /\ Cardinality(PrimaryBlocks(doc)) = 1
    /\ Len(OnlyBlockImgs(doc)) = 1

\* the persisted records (none before the first save_sitemap)
Persisted == UNION {{f[k] : k \in DOMAIN f} : f \in Range(sitemap_json)}

Mailto == <<"m", "a", "i", "l", "t", "o", ":">>

\* C15: the link collection extract_links returns holds no empty string, no
\* string that starts with 'mailto:' and no duplicate, whatever the hrefs of
\* the anchors are (an href that is only 'https://pa-f.net' included).
C15_LinksClean ==
    \A c \in Calls :
        (c.out.kind = "record") =>
            LET links == c.out.rec.links
            IN  /\ \A i \in DOMAIN links : links[i] # <<>>
                /\ \A i \in DOMAIN links : ~BeginsWith(links[i], Mailto)
                /\ \A i, j \in DOMAIN links : links[i] = links[j] => i = j

\* the same-site absolute prefixes
SitePrefixes == {<<"h", "t", "t", "p", "s", ":", "/", "/", "p", "a", "-", "f", ".", "n", "e", "t">>, <<"h", "t", "t", "p", ":", "/", "/", "p", "a", "-", "f", ".", "n", "e", "t">>, <<"h", "t", "t", "p", ":", "/", "/", "w", "w", "w", ".", "p", "a", "-", "f", ".", "n", "e", "t">>}

\* the href as the statement records it: the remainder after a same-site
\* prefix it begins with, the href itself when it begins with none
StatedLink(h) ==
    IF \E p \in SitePrefixes : BeginsWith(h, p)
    THEN LET p == CHOOSE q \in SitePrefixes : BeginsWith(h, q)
         IN  DropFirst(h, Len(p))
    ELSE h

\* the hrefs of a document that extract_links does not pass over
KeptHrefs(doc) ==
    {h.s : h \in {x \in Range(doc.hrefs) : x # PyNone /\ x.s # <<>>
                                            /\ ~BeginsWith(x.s, Mailto)}}

\* C16: extract_links changes an href only by removing a same-site absolute
\* prefix it begins with; every other href (relative, or absolute to another
\* host, also with the site host later inside it or as the beginning of a
\* longer host name) is recorded unchanged.
C16_OnlyLeadingSitePrefixRemoved ==
    \A c \in Calls :
        (c.out.kind = "record") =>
            Range(c.out.rec.links) = {StatedLink(h) : h \in KeptHrefs(c.doc)}

\* the path, taken relative to the root, is of one of the four exclusion
\* classes: printer export, size-suffixed variant, tracker query, file asset
Excluded(path, root) ==
    /\ BeginsWith(path, root)
    /\ LET rel == DropFirst(path, Len(root))
       IN  \/ BeginsWith(rel, <<"b", "o", "o", "k", "/", "e", "x", "p", "o", "r", "t">>)
           \/ Occurrences(rel, <<"s", "i", "z", "e", "=">>) # {}
           \/ BeginsWith(rel, <<"t", "r", "a", "c", "k", "e", "r", "?">>)
           \/ BeginsWith(rel, <<"f", "i", "l", "e", "s", "/">>)

\* C17: whatever the file holds and whatever root directory the parser was
\* given, a path of one of the four exclusion classes (book/export/x,
\* b?size=100, tracker?x=1, files/y.png below the root) gives no record and
\* never becomes a sitemap key.
C17_ExcludedPathsSkipped ==
    /\ \A c \in Calls : Excluded(c.path, root_dir) => c.out = ReturnsNone
    /\ \A k \in DOMAIN parser_sitemap : ~Excluded(root_dir \o k, root_dir)

\* the files of the tree that parse_file turns into a record
RecordFiles ==
    {p \in DOMAIN tree : \E l \in extract_links(tree[p]) :
                             parse_file(p, tree[p], l).kind = "record"}

\* C18: the key parse gives a file is the file's path relative to the root
\* directory: root directory followed by key is the file's path, the key is
\* never empty, and two files never get the same key, so that the returned
\* sitemap has one record per file that produced one (also for paths that
\* hold the root directory's name again in a deeper segment).
C18_KeyIsRelativePath ==
    /\ \A c \in Calls :
          /\ root_dir \o c.uid = c.path
          /\ c.uid # <<>>
    /\ (pstate = "returned") =>
          Cardinality(DOMAIN parser_sitemap) = Cardinality(RecordFiles)

\* two sitemaps with the same keys and, key by key, equal fields, the links
\* compared as sets
SameSitemap(a, b) ==
    /\ DOMAIN a = DOMAIN b
    /\ \A k \in DOMAIN a :
          /\ a[k].title = b[k].title
          /\ a[k].md = b[k].md
          /\ a[k].date = b[k].date
          /\ a[k].image = b[k].image
          /\ Range(a[k].links) = Range(b[k].links)

\* C19: parse() calls over an unchanged file tree return the same sitemap,
\* whatever order the directory walk takes in each call and although the
\* calls are made on one SiteParser: same keys, and per key records equal
\* field by field with the links compared as a set.
C19_SameSitemapEveryTime ==
    \A i, j \in DOMAIN returned : SameSitemap(returned[i], returned[j])

\* C20: parse never ends with an exception because of what a file holds: no
\* parse_file call raises (an img without a src attribute in the only
\* content block included) and every file either gives one record or none.
C20_ParseNeverRaises ==
    /\ pstate # "raised"
    /\ \A c \in Calls : c.out.kind \in {"None", "record"}

(***************************************************************************)
(* The legacy Builder: parse() of sitemap.py                               *)
(***************************************************************************)

\* a local variable that no statement of this call has assigned yet
Unbound == [py |-> "unbound"]

\* sitemap.py:17
ROOT == <<"p", "a", "-", "f", ".", "n", "e", "t", "/">>

\* the four `continue` tests on the path, sitemap.py:25-38
legacy_skip(path) ==
    \/ StartsWith(path, <<"p", "a", "-", "f", ".", "n", "e", "t", "/", "b", "o", "o", "k", "/", "e", "x", "p", "o", "r", "t">>)
    \/ Contains(path, <<"s", "i", "z", "e", "=">>)
    \/ StartsWith(path, <<"p", "a", "-", "f", ".", "n", "e", "t", "/", "t", "r", "a", "c", "k", "e", "r", "?">>)
    \/ StartsWith(path, <<"p", "a", "-", "f", ".", "n", "e", "t", "/", "f", "i", "l", "e", "s", "/">>)

\* the loop of the multi-block branch: md(None) raises for a node without a
\* .title or without a .content descendant
RECURSIVE LegacyNodesMd(_, _)
LegacyNodesMd(nodes, i) ==
    IF i > Len(nodes) THEN [raised |-> FALSE, md |-> <<>>]
    ELSE IF ~nodes[i].title \/ nodes[i].content = PyNone
         THEN [raised |-> TRUE, md |-> <<>>]
         ELSE LET rest == LegacyNodesMd(nodes, i + 1)
              IN  [raised |-> rest.raised,
                   md |-> <<Md("title", i), Md("content", i)>> \o rest.md]

\* sitemap.py:58-76: content_md, image and the local `content`, which only
\* the else branch assigns; content_in is its value from the files before
legacy_body(soup, content_in) ==
    LET blocks == SelectContent(soup.nodes, 1)
    IN  IF Len(blocks) > 1
        THEN LET n == LegacyNodesMd(soup.nodes, 1)
             IN  [raised |-> n.raised, md |-> n.md, image |-> PyFalse,
                  content |-> content_in]
        ELSE IF blocks = <<>>
        THEN [raised |-> FALSE, md |-> <<>>, image |-> PyFalse, content |-> PyNone]
        ELSE LET im == single_image(blocks[1].tag.imgs)
             IN  IF im.raised
                 THEN [raised |-> TRUE, md |-> <<>>, image |-> PyFalse,
                       content |-> blocks[1].tag]
                 ELSE [raised |-> FALSE, md |-> <<Md("content", blocks[1].node)>>,
                       image |-> im.image, content |-> blocks[1].tag]

\* one pass of the loop body, sitemap.py:23-109: how it ends and what the
\* local `content` holds afterwards
legacy_file(path, soup, content_in) ==
    IF legacy_skip(path) \/ ~soup.decodable \/ soup.title = PyNone
    THEN [out |-> ReturnsNone, content |-> content_in]
    ELSE LET b == legacy_body(soup, content_in)
         IN  IF b.raised THEN [out |-> Raises, content |-> b.content]
             \* line 83 reads `content`: UnboundLocalError when no file of
             \* this call has taken the else branch yet
             ELSE IF b.content = Unbound THEN [out |-> Raises, content |-> b.content]
             ELSE IF ~(b.content # PyNone \/ soup.galleries \/ soup.images)
             THEN [out |-> ReturnsNone, content |-> b.content]
             ELSE [out |-> Returns([title |-> extract_title(soup).s,
                                    md |-> b.md \o SectionsMd(soup),
                                    date |-> extract_date(soup),
                                    image |-> b.image]),
                   content |-> b.content]

\* json.dump(sitemap, ...) of the legacy records, sitemap.py:111
LegacyJsonDump(sm) ==
    [k \in DOMAIN sm |->
        [title |-> JsonString(sm[k].title),
         md    |-> JsonString(sm[k].md),
         date  |-> JsonValue(sm[k].date),
         image |-> JsonValue(sm[k].image)]]

\* pages of the mirror's root directory and of one sub-directory
d_gallery == [d_page EXCEPT !.nodes = <<>>, !.galleries = TRUE]
d_empty == [d_page EXCEPT !.nodes = <<>>]
d_listing ==
    [d_page EXCEPT !.nodes = <<[title |-> TRUE, content |-> Tag(<<>>)],
                               [title |-> TRUE, content |-> Tag(<<>>)]>>]
d_untitled_node ==
    [d_page EXCEPT !.nodes = <<[title |-> FALSE, content |-> Tag(<<>>)],
                               [title |-> TRUE, content |-> Tag(<<>>)]>>]

LegacyFiles ==
    {<<<<"p", "a", "-", "f", ".", "n", "e", "t", "/", "a", ".", "h", "t", "m", "l">>, d_page>>,
     <<<<"p", "a", "-", "f", ".", "n", "e", "t", "/", "g", ".", "h", "t", "m", "l">>, d_gallery>>,
     <<<<"p", "a", "-", "f", ".", "n", "e", "t", "/", "e", ".", "h", "t", "m", "l">>, d_empty>>,
     <<<<"p", "a", "-", "f", ".", "n", "e", "t", "/", "m", ".", "h", "t", "m", "l">>, d_listing>>,
     <<<<"p", "a", "-", "f", ".", "n", "e", "t", "/", "n", "/", "t", ".", "h", "t", "m", "l">>, d_untitled_node>>,
     <<<<"p", "a", "-", "f", ".", "n", "e", "t", "/", "b", ".", "b", "i", "n">>, d_binary>>,
     <<<<"p", "a", "-", "f", ".", "n", "e", "t", "/", "f", "i", "l", "e", "s", "/", "y", ".", "p", "n", "g">>, d_page>>}

LegacyInit ==
    /\ root_dir = ROOT
    /\ tree \in {TreeOf(F) : F \in SubsetsUpTo(LegacyFiles, MaxFiles) \ {{}}}
    /\ walk = <<>>
    /\ pos = 1
    /\ pstate = "idle"
    /\ parser_sitemap = <<>>
    /\ parsed = <<>>
    /\ returned = <<>>
    /\ sitemap_json = <<>>
    /\ decided = <<>>
    /\ LegacyIdle
    /\ EditorIdle
    /\ AnalyzerIdle

\* parse() is entered: its locals are fresh, os.walk fixes an order
LegacyCall ==
    /\ pstate # "walking"
    /\ Len(returned) < MaxCalls
    /\ walk' \in WalkOrders(tree)
    /\ pos' = 1
    /\ pstate' = "walking"
    /\ legacy_sitemap' = <<>>
    /\ content' = Unbound
    /\ parsed' = <<>>
    /\ UNCHANGED <<root_dir, tree, returned, sitemap_json, decided, parser_sitemap,
                   avars, evars>>

\* one pass of the loop body
LegacyFile ==
    /\ pstate = "walking"
    /\ pos <= Len(walk)
    /\ LET path == walk[pos]
           my_uid == SplitStr(path, ROOT)[2]
           r == legacy_file(path, tree[path], content)
       IN  /\ parsed' = <<[path |-> path, uid |-> my_uid, doc |-> tree[path],
                           out |-> r.out]>>
           /\ decided' = Decide(decided, path, r.out)
           /\ content' = r.content
           /\ IF r.out = Raises
              THEN /\ pstate' = "raised"
                   /\ UNCHANGED <<pos, legacy_sitemap>>
              ELSE /\ pos' = pos + 1
                   /\ pstate' = "walking"
                   /\ legacy_sitemap' =
                         IF r.out = ReturnsNone THEN legacy_sitemap
                         ELSE (my_uid :> r.out.rec) @@ legacy_sitemap
    /\ UNCHANGED <<root_dir, tree, walk, returned, sitemap_json, parser_sitemap,
                   avars, evars>>

\* the walk is over: the sitemap is dumped and returned, sitemap.py:111-112
LegacyReturn ==
    /\ pstate = "walking"
    /\ pos > Len(walk)
    /\ pstate' = "returned"
    /\ sitemap_json' = <<LegacyJsonDump(legacy_sitemap)>>
    /\ returned' = Append(returned, legacy_sitemap)
    /\ UNCHANGED <<root_dir, tree, walk, pos, parsed, decided, content,
                   legacy_sitemap, parser_sitemap, avars, evars>>

LegacyNext == LegacyCall \/ LegacyFile \/ LegacyReturn

LegacySpec == LegacyInit /\ [][LegacyNext]_vars

\* C21: in both Builders, whether a file is included and what record it gets
\* depend only on the file's own path and bytes: whatever files were processed
\* before it, in this call or in an earlier one, its parsing ends the same way
\* with the same record.
C21_DecisionDependsOnFileOnly ==
    \A p \in DOMAIN decided : Cardinality(decided[p]) <= 1

(***************************************************************************)
(* Properties of the graph export as a whole                               *)
(***************************************************************************)

\* the identifier declared for the i-th page of the sitemap
DeclaredFor(dot, i) == dot[NodeLineOf(dot, i)].uid

\* C22: in the graph export two distinct sitemap keys get two distinct node
\* identifiers (a-b.html and a/b.html for one), and for every link that names
\* an existing page, root-relative or by '../', the linking page has an edge
\* to the identifier declared for that page's node.
C22_GraphAgreesWithSitemap ==
    op = "generate_graphviz" =>
        /\ \A i, j \in 1..Len(sitemap) :
              i # j => DeclaredFor(ret, i) # DeclaredFor(ret, j)
        /\ \A t \in Keys(sitemap) :
              \A q \in ResolvingTo(sitemap, t) :
                  \E n \in EdgeLinesOf(ret) :
                      /\ ret[n].uid = DeclaredFor(ret, q[1])
                      /\ ret[n].arg = DeclaredFor(ret, PositionOf(sitemap, t))

(***************************************************************************)
(* Properties of the generated output directory                            *)
(***************************************************************************)

\* the keys of the stored sitemap
StoredKeys == {sitemap_file[i].key : i \in 1..Len(sitemap_file)}

\* C23: once the last update_sitemap request has returned success, the pages
\* in the generated output directory are the keys of the stored sitemap: every
\* key has a generated page, and no page remains for a key that only an
\* earlier sitemap had.
C23_OutputMatchesStoredSitemap ==
    response = "200" => paf_static = StoredKeys

====
